---- MODULE Spec2Model ----
(***************************************************************************)
(* Model of the mijn.host dynamic-DNS daemon (src/script.py): the          *)
(* configuration loader load_and_validate_config, the writer               *)
(* cache_ip_in_yaml, the two HTTP helpers and the endless main loop.       *)
(*                                                                         *)
(* Python strings that the code inspects (strip, upper, int, startswith)   *)
(* are sequences of one-character strings, so that these conversions are   *)
(* computed.  IP addresses are only compared and copied by the code and    *)
(* are kept as atoms; "none" stands for Python's None.                     *)
(***************************************************************************)
EXTENDS Integers, Sequences, FiniteSets, TLC

\* ------------------------------------------------------------------ bounds
\* Number of rewrites/deletions of the configuration file by its human editor.
MaxEdits == 2
\* Number of distinct modification stamps kept apart (0 is the code's "no file").
MtimeValues == 3

\* --------------------------------------------------------- script defaults
DEFAULT_CHECK_INTERVAL_SECONDS == 300

DEFAULT_PUBLIC_IP_SERVICE_URL ==
  << "h","t","t","p","s",":","/","/","a","p","i",".","i","p","i","f","y",".","o","r","g",
     "?","f","o","r","m","a","t","=","j","s","o","n" >>

\* -------------------------------------------------------- Python scalars
\* A YAML scalar as safe_load returns it: None, an int, a str, a float, or
\* (where a scalar is expected) a container.
RNone == [t |-> "none", n |-> 0, s |-> << >>]
RInt(i) == [t |-> "int", n |-> i, s |-> << >>]
RStr(str) == [t |-> "str", n |-> 0, s |-> str]
RList == [t |-> "list", n |-> 0, s |-> << >>]
\* A finite float: its integral part (what int() truncates to) and its text.
RFloat(whole, text) == [t |-> "float", n |-> whole, s |-> text]
\* .inf
RInf == [t |-> "inf", n |-> 0, s |-> << "i","n","f" >>]

Whitespace == {" ", "\t", "\n"}
Digits == << "0","1","2","3","4","5","6","7","8","9" >>
LowerCase == << "a","b","c","d","e","f","g","h","i","j","k","l","m",
                "n","o","p","q","r","s","t","u","v","w","x","y","z" >>
UpperCase == << "A","B","C","D","E","F","G","H","I","J","K","L","M",
                "N","O","P","Q","R","S","T","U","V","W","X","Y","Z" >>

IsDigit(c) == \E i \in 1..10 : Digits[i] = c
DigitVal(c) == (CHOOSE i \in 1..10 : Digits[i] = c) - 1

\* str.upper(), one character
UpperChar(c) ==
  IF \E i \in 1..26 : LowerCase[i] = c
  THEN UpperCase[CHOOSE i \in 1..26 : LowerCase[i] = c]
  ELSE c

\* str.upper()
PyUpper(str) == [i \in 1..Len(str) |-> UpperChar(str[i])]

RECURSIVE LStrip(_)
LStrip(str) ==
  IF str # << >> /\ Head(str) \in Whitespace THEN LStrip(Tail(str)) ELSE str

RECURSIVE RStrip(_)
RStrip(str) ==
  IF str # << >> /\ str[Len(str)] \in Whitespace
  THEN RStrip(SubSeq(str, 1, Len(str) - 1))
  ELSE str

\* str.strip()
PyStrip(str) == RStrip(LStrip(str))

\* str.startswith(prefix)
StartsWith(str, prefix) ==
  /\ Len(str) >= Len(prefix)
  /\ SubSeq(str, 1, Len(prefix)) = prefix

RECURSIVE NatToStr(_)
NatToStr(i) ==
  IF i < 10 THEN << Digits[i + 1] >>
  ELSE NatToStr(i \div 10) \o << Digits[(i % 10) + 1] >>

\* str(i) of an int
IntToStr(i) == IF i < 0 THEN << "-" >> \o NatToStr(0 - i) ELSE NatToStr(i)

\* str(v): the text of a scalar as Python prints it
PyStr(v) ==
  CASE v.t = "str" -> v.s
    [] v.t = "int" -> IntToStr(v.n)
    [] v.t = "none" -> << "N","o","n","e" >>
    [] v.t \in {"float", "inf"} -> v.s
    [] OTHER -> << "[", "]" >>

RECURSIVE DigitsToNat(_, _)
DigitsToNat(str, acc) ==
  IF str = << >> THEN acc
  ELSE DigitsToNat(Tail(str), acc * 10 + DigitVal(Head(str)))

\* int(str): surrounding whitespace and one sign are accepted; ok = FALSE is
\* the ValueError.
IntOfStr(str) ==
  LET body == PyStrip(str)
      signed == body # << >> /\ Head(body) \in {"+", "-"}
      digs == IF signed THEN Tail(body) ELSE body
      valid == digs # << >> /\ \A i \in 1..Len(digs) : IsDigit(digs[i])
      mag == IF valid THEN DigitsToNat(digs, 0) ELSE 0
  IN  [ok |-> valid,
       n |-> IF signed /\ Head(body) = "-" THEN 0 - mag ELSE mag]

\* int(v): ok = FALSE is the ValueError (bad text) or TypeError (None, list).
PyInt(v) ==
  CASE v.t = "int" -> [ok |-> TRUE, n |-> v.n]
    [] v.t = "str" -> IntOfStr(v.s)
    [] v.t = "float" -> [ok |-> TRUE, n |-> v.n]
    [] OTHER -> [ok |-> FALSE, n |-> 0]

\* int(v) raises OverflowError, which is neither of the two.
IntOverflows(v) == v.t = "inf"

\* ------------------------------------------------------------- documents
\* A record entry of a domain's `records` list as parsed from YAML: a mapping
\* with some of the keys name/type/ttl, or something that is not a mapping.
RecordItem(isDict, keys, name, type, ttl) ==
  [isDict |-> isDict, keys |-> keys, name |-> name, type |-> type, ttl |-> ttl]

\* An entry of the top-level `domains` list as parsed from YAML.
DomainEntry(isDict, keys, domain_name, recordsIsList, records) ==
  [isDict |-> isDict, keys |-> keys, domain_name |-> domain_name,
   recordsIsList |-> recordsIsList, records |-> records]

\* What yaml.safe_load makes of the file's text:
\*   "unparseable"  safe_load raises YAMLError
\*   "empty"        a falsy value (None, {}, [], 0, "")
\*   "list"         a non-empty top-level sequence
\*   "scalar"       a non-zero number or non-empty string at top level
\*   "map"          a non-empty mapping; gsIsDict says global_settings is
\*                  present and a mapping, domainsIsList that domains is
\*                  present and a sequence; extra is the value of a further
\*                  top-level key the script does not know ("none": no such
\*                  key).
Document(kind, gsIsDict, ip, interval, url, domainsIsList, domains) ==
  [kind |-> kind, gsIsDict |-> gsIsDict, last_known_ip |-> ip,
   check_interval_seconds |-> interval, public_ip_service_url |-> url,
   domainsIsList |-> domainsIsList, domains |-> domains, extra |-> "none"]

OtherDocument(kind) == Document(kind, FALSE, "none", RNone, RNone, FALSE, << >>)

\* {} : the initial value of parsed_config_data
EmptyDict == OtherDocument("empty")

\* {'global_settings': {}, 'domains': []}
EmptyStructure == Document("map", TRUE, "none", RNone, RNone, TRUE, << >>)

\* Python truthiness of parsed_config_data
Truthy(doc) == doc.kind # "empty"

\* ------------------------------------------------------------ validation
\* One record entry: the checks of the inner loop, in the code's order.
record_name(item) == PyStrip(PyStr(item.name))
record_type(item) == PyStrip(PyUpper(PyStr(item.type)))
record_ttl_str(item) == PyStrip(PyStr(item.ttl))

RecordKept(item) ==
  /\ item.isDict
  /\ {"name", "type", "ttl"} \subseteq item.keys
  /\ record_name(item) # << >>
  /\ record_type(item) \in { << "A" >>, << "A","A","A","A" >> }
  /\ IntOfStr(record_ttl_str(item)).ok
  /\ IntOfStr(record_ttl_str(item)).n > 0

ValidRecord(item) ==
  [name |-> record_name(item), type |-> record_type(item),
   ttl |-> IntOfStr(record_ttl_str(item)).n]

RECURSIVE valid_records_for_domain(_)
valid_records_for_domain(records) ==
  IF records = << >> THEN << >>
  ELSE (IF RecordKept(Head(records)) THEN << ValidRecord(Head(records)) >> ELSE << >>)
       \o valid_records_for_domain(Tail(records))

\* Variant: the domain name is stored in its absolute form.
current_domain_name_absolute(entry) ==
  PyStrip(PyStr(entry.domain_name)) \o << "." >>

current_domain_name(entry) == PyStrip(PyStr(entry.domain_name))

\* One domain entry: the three `continue`s of the outer loop and the final
\* test that some record survived.
DomainKept(entry) ==
  /\ entry.isDict
  /\ {"domain_name", "records"} \subseteq entry.keys
  /\ entry.recordsIsList
  /\ entry.records # << >>
  /\ current_domain_name(entry) # << >>
  /\ valid_records_for_domain(entry.records) # << >>

RECURSIVE valid_domain_configs(_)
valid_domain_configs(entries) ==
  IF entries = << >> THEN << >>
  ELSE (IF DomainKept(Head(entries))
        THEN << [domain_name |-> current_domain_name(Head(entries)),
                 records |-> valid_records_for_domain(Head(entries).records)] >>
        ELSE << >>)
       \o valid_domain_configs(Tail(entries))

\* check_interval_seconds: YAML value, else the default; non-positive or not
\* convertible falls back to the default.
EffectiveInterval(raw) ==
  LET v == IF raw.t # "none" THEN raw ELSE RInt(DEFAULT_CHECK_INTERVAL_SECONDS)
      r == PyInt(v)
  IN  IF r.ok /\ r.n > 0 THEN r.n ELSE DEFAULT_CHECK_INTERVAL_SECONDS

\* public_ip_service_url: YAML value as text, else the default; without an
\* http(s) scheme the default.
EffectiveUrl(raw) ==
  LET u == IF raw.t # "none" THEN PyStr(raw) ELSE DEFAULT_PUBLIC_IP_SERVICE_URL
  IN  IF \/ StartsWith(u, << "h","t","t","p",":","/","/" >>)
         \/ StartsWith(u, << "h","t","t","p","s",":","/","/" >>)
      THEN u
      ELSE DEFAULT_PUBLIC_IP_SERVICE_URL

\* parsed_config_data after the two "ensure ... exists" repairs.  Only called
\* on a mapping: on a list or scalar the first repair raises.
EnsureSections(doc) ==
  LET gs == IF doc.gsIsDict THEN doc
            ELSE [doc EXCEPT !.gsIsDict = TRUE, !.last_known_ip = "none",
                             !.check_interval_seconds = RNone,
                             !.public_ip_service_url = RNone]
  IN  IF gs.domainsIsList THEN gs
      ELSE [gs EXCEPT !.domainsIsList = TRUE, !.domains = << >>]

\* ----------------------------------------------------------- environment
\* Addresses the public-IP service can report.
Addresses == {"203.0.113.1", "203.0.113.9"}

ExampleCom == << "e","x","a","m","p","l","e",".","c","o","m" >>
At == << "@" >>
Www == << "w","w","w" >>
AllRecordKeys == {"name", "type", "ttl"}
AllDomainKeys == {"domain_name", "records"}

\* A hand-written configuration: one domain whose second record has a type
\* the daemon does not manage, lower-case type and textual ttl in the others,
\* and a top-level key `notes` of the author's own.
ConfigA ==
  [Document("map", TRUE, "203.0.113.1", RInt(60), RNone, TRUE,
    << DomainEntry(TRUE, AllDomainKeys, RStr(ExampleCom), TRUE,
         << RecordItem(TRUE, AllRecordKeys, RStr(At), RStr(<< "a" >>), RInt(300)),
            RecordItem(TRUE, AllRecordKeys, RStr(Www),
                       RStr(<< "C","N","A","M","E" >>), RInt(300)),
            RecordItem(TRUE, AllRecordKeys, RStr(<< " " >> \o Www),
                       RStr(<< "A","A","A","A" >>), RStr(<< "6","0" >>)) >>) >>)
   EXCEPT !.extra = "notes"]

\* A configuration without usable domains and with settings that fall back.
ConfigB ==
  Document("map", TRUE, "none", RInt(-5), RStr(<< "f","t","p",":","/","/","x" >>),
           FALSE, << >>)

\* What the human editor may leave in the configuration file.
EditorDocuments ==
  {ConfigA, ConfigB, OtherDocument("unparseable"), OtherDocument("list")}

\* What the file may hold when the daemon starts.
InitialDocuments ==
  EditorDocuments \cup {OtherDocument("empty"), OtherDocument("scalar")}

\* The default template shipped with the image, if any.
Templates == {ConfigA, OtherDocument("unparseable"), OtherDocument("list")}

NoFile == [exists |-> FALSE, doc |-> EmptyDict, mtime |-> 0]
FileOf(doc, mtime) == [exists |-> TRUE, doc |-> doc, mtime |-> mtime]

\* None as the value of domain_configurations, and a list as its value.
NoDomains == [isNone |-> TRUE, list |-> << >>]
DomainList(l) == [isNone |-> FALSE, list |-> l]

VARIABLES
  pc,                             \* where the script is
  environ_api_key,                \* os.environ['MIJNHOST_API_KEY']: "none", "empty", "set"
  file,                           \* the file at DNS_CONFIG_FILE_PATH
  MIJNHOST_API_KEY,
  CHECK_INTERVAL_SECONDS,
  PUBLIC_IP_SERVICE_URL,
  parsed_config_data,
  cached_ip_from_config,
  domain_configurations,
  dns_config_last_modified_time,
  current_public_ip,
  next_record,                    \* position of the two nested for loops
  all_updates_successful_for_new_ip,
  sleep_seconds,                  \* argument of the pending time.sleep
  \* observations of the current iteration, for stating properties
  calls,                          \* update_dns_record calls, with results
  saves,                          \* cache_ip_in_yaml calls
  loaded,                         \* "no", "ok", "fatal", "crash": this iteration's reload
  startup_load,                   \* the same for the load before the loop
  last_load,                      \* result of the most recent load, "no" before any
  failed_save,                    \* the latest cache_ip_in_yaml, if its write failed
  provider,                       \* what the update calls have left at mijn.host
  prev,                           \* the same observations of the previous iteration
  file_touched,                   \* file written or removed since the last mtime check
  unchanged_at_check,             \* ... as found by this iteration's mtime check
  doc_accessed,                   \* the process has opened the configuration file
  edits                           \* number of edits by the human editor

vars ==
  << pc, environ_api_key, file, MIJNHOST_API_KEY, CHECK_INTERVAL_SECONDS,
     PUBLIC_IP_SERVICE_URL, parsed_config_data, cached_ip_from_config,
     domain_configurations, dns_config_last_modified_time, current_public_ip,
     next_record, all_updates_successful_for_new_ip, sleep_seconds,
     calls, saves, loaded, startup_load, last_load, failed_save, provider, prev,
     file_touched, unchanged_at_check, doc_accessed, edits >>

NoObservations == [calls |-> << >>, resolved |-> "unset", loaded |-> "no"]

\* provider: per record (name, type) the value of the latest update call that
\* the API accepted, and the address and domains of the latest batch whose
\* calls were all accepted and whose address was then written to the file.
NoBatch == [ip |-> "none", domains |-> << >>]
NoProvider == [held |-> {}, synced |-> NoBatch]

\* failed_save: the address of the latest cache_ip_in_yaml call if its write
\* failed ("none" otherwise), and whether a load has run since.
NoFailedSave == [ip |-> "none", reloaded |-> FALSE]

\* A modification time the file system gives a file written now: later than,
\* hence different from, the file's present one and the one the loop remembers.
\* The code only tests stamps for equality, so only that difference is kept.
NewMtime ==
  CHOOSE m \in 1..MtimeValues :
    m # file.mtime /\ m # dns_config_last_modified_time

\* The module-level assignments and the state of a process that has not run.
ProcessStart ==
  /\ pc = "start"
  /\ MIJNHOST_API_KEY = "none"
  /\ CHECK_INTERVAL_SECONDS = DEFAULT_CHECK_INTERVAL_SECONDS
  /\ PUBLIC_IP_SERVICE_URL = DEFAULT_PUBLIC_IP_SERVICE_URL
  /\ parsed_config_data = EmptyDict
  /\ cached_ip_from_config = "none"
  /\ domain_configurations = NoDomains
  /\ dns_config_last_modified_time = 0
  /\ current_public_ip = "unset"
  /\ next_record = 0
  /\ all_updates_successful_for_new_ip = TRUE
  /\ sleep_seconds = 0
  /\ calls = << >>
  /\ saves = << >>
  /\ loaded = "no"
  /\ startup_load = "no"
  /\ last_load = "no"
  /\ failed_save = NoFailedSave
  /\ provider = NoProvider
  /\ prev = NoObservations
  /\ file_touched = FALSE
  /\ unchanged_at_check = FALSE
  /\ doc_accessed = FALSE
  /\ edits = 0

Init ==
  /\ environ_api_key \in {"set", "empty", "none"}
  /\ file \in {NoFile} \cup {FileOf(d, 1) : d \in InitialDocuments}
  /\ ProcessStart

\* ------------------------------------------------ load_and_validate_config
\* Variant: without a configuration file and without a usable template the
\* read gives up as it does on unparseable text.
ReadConfigNoFallback(template, copyOk) ==
  IF file.exists
  THEN IF file.doc.kind = "unparseable"
       THEN [result |-> "raise", doc |-> parsed_config_data, file |-> file]
       ELSE [result |-> "read",
             doc |-> IF Truthy(file.doc) THEN file.doc ELSE EmptyStructure,
             file |-> file]
  ELSE IF template.exists /\ copyOk
       THEN [result |-> "read",
             doc |-> IF template.doc.kind = "unparseable" \/ ~Truthy(template.doc)
                     THEN EmptyStructure
                     ELSE template.doc,
             file |-> FileOf(template.doc, NewMtime)]
       ELSE [result |-> "raise", doc |-> parsed_config_data, file |-> file]

\* The document the try block leaves in parsed_config_data, and the file it
\* leaves on disk.  `template` is the default template (NoFile when absent),
\* `copyOk` whether writing the copy succeeds.
\*   "raise"  the initial read failed (YAMLError, or another error)
ReadConfig(template, copyOk) ==
  IF file.exists
  THEN IF file.doc.kind = "unparseable"
       THEN [result |-> "raise", doc |-> parsed_config_data, file |-> file]
       ELSE [result |-> "read",
             doc |-> IF Truthy(file.doc) THEN file.doc ELSE EmptyStructure,
             file |-> file]
  ELSE IF template.exists /\ copyOk
       THEN [result |-> "read",
             doc |-> IF template.doc.kind = "unparseable" \/ ~Truthy(template.doc)
                     THEN EmptyStructure
                     ELSE template.doc,
             file |-> FileOf(template.doc, NewMtime)]
       ELSE [result |-> "read", doc |-> EmptyStructure, file |-> file]

\* Everything one call of load_and_validate_config does:
\*   result   "fatal" (returns None, None), "crash" (an exception leaves the
\*            function: on a top-level list or scalar the test
\*            'global_settings' not in parsed_config_data or the assignment
\*            parsed_config_data['global_settings'] = {} raises TypeError
\*            outside every try block; on an infinite check_interval_seconds
\*            int() raises OverflowError past the except clause) or "ok"
\*   ip, domains   the returned pair
\*   key, interval, url, pcd   the globals afterwards;  file   the disk
load_and_validate_config(template, copyOk) ==
  LET rd == ReadConfig(template, copyOk)
      pcd == EnsureSections(rd.doc)
      early == [result |-> "fatal", ip |-> "none", domains |-> NoDomains,
                key |-> environ_api_key, interval |-> CHECK_INTERVAL_SECONDS,
                url |-> PUBLIC_IP_SERVICE_URL, pcd |-> parsed_config_data,
                file |-> file, opened |-> FALSE]
  IN  IF environ_api_key # "set"
      THEN early
      ELSE IF rd.result = "raise"
      THEN [early EXCEPT !.opened = TRUE]
      ELSE IF rd.doc.kind \in {"list", "scalar"}
      THEN [early EXCEPT !.result = "crash", !.pcd = rd.doc,
                         !.file = rd.file, !.opened = TRUE]
      ELSE IF IntOverflows(pcd.check_interval_seconds)
      THEN [early EXCEPT !.result = "crash", !.pcd = pcd,
                         !.file = rd.file, !.opened = TRUE]
      ELSE [result |-> "ok", ip |-> pcd.last_known_ip,
            domains |-> DomainList(valid_domain_configs(pcd.domains)),
            key |-> environ_api_key,
            interval |-> EffectiveInterval(pcd.check_interval_seconds),
            url |-> EffectiveUrl(pcd.public_ip_service_url),
            pcd |-> pcd, file |-> rd.file, opened |-> TRUE]

\* The globals and the disk after a call with outcome r.
LoadEffects(r) ==
  /\ MIJNHOST_API_KEY' = r.key
  /\ CHECK_INTERVAL_SECONDS' = r.interval
  /\ PUBLIC_IP_SERVICE_URL' = r.url
  /\ parsed_config_data' = r.pcd
  /\ file' = r.file
  /\ doc_accessed' = (doc_accessed \/ r.opened)

\* --------------------------------------------------------- cache_ip_in_yaml
\* Variant: the document is built afresh from the values the script holds.
CachedDocumentFresh(ip_address) ==
  [EmptyStructure EXCEPT !.last_known_ip = ip_address,
                         !.check_interval_seconds = RInt(CHECK_INTERVAL_SECONDS),
                         !.public_ip_service_url = RStr(PUBLIC_IP_SERVICE_URL)]

\* Variant: only the two settings are written back.
CachedDocumentSettingsOnly(ip_address) ==
  LET base == EnsureSections(IF Truthy(parsed_config_data)
                             THEN parsed_config_data
                             ELSE EmptyStructure)
  IN  [base EXCEPT !.check_interval_seconds = RInt(CHECK_INTERVAL_SECONDS),
                   !.public_ip_service_url = RStr(PUBLIC_IP_SERVICE_URL)]

\* parsed_config_data after cache_ip_in_yaml(ip_address)
CachedDocument(ip_address) ==
  LET base == EnsureSections(IF Truthy(parsed_config_data)
                             THEN parsed_config_data
                             ELSE EmptyStructure)
  IN  [base EXCEPT !.last_known_ip = ip_address,
                   !.check_interval_seconds = RInt(CHECK_INTERVAL_SECONDS),
                   !.public_ip_service_url = RStr(PUBLIC_IP_SERVICE_URL)]

\* cache_ip_in_yaml(ip_address); writeOk = FALSE is the IOError of open/dump.
cache_ip_in_yaml(ip_address, writeOk) ==
  /\ parsed_config_data' = CachedDocument(ip_address)
  /\ file' = IF writeOk THEN FileOf(CachedDocument(ip_address), NewMtime) ELSE file
  /\ file_touched' = IF writeOk THEN TRUE ELSE file_touched
  /\ doc_accessed' = TRUE
  /\ saves' = Append(saves, ip_address)
  /\ failed_save' = IF writeOk THEN NoFailedSave
                    ELSE [ip |-> ip_address, reloaded |-> FALSE]

\* Variant: the in-memory cache follows only a write that succeeded.
CachedAfterSaveIfWritten(ip_address, writeOk) ==
  IF writeOk THEN ip_address ELSE cached_ip_from_config

\* cached_ip_from_config after `cache_ip_in_yaml(current_public_ip)`: the
\* assignment follows the call whatever became of the write.
CachedAfterSave(ip_address, writeOk) == ip_address

\* --------------------------------------------------------- update_dns_record
\* The name sent to the provider: the apex for "@" or an empty name.
fqdn_record_name(domain_name_param, name) ==
  IF name = At \/ name = << >>
  THEN domain_name_param \o << "." >>
  ELSE name \o << "." >> \o domain_name_param \o << "." >>

\* The (domain, record) pairs in the order the two nested loops visit them.
RECURSIVE UpdateTargets(_)
UpdateTargets(domains) ==
  IF domains = << >> THEN << >>
  ELSE [j \in 1..Len(Head(domains).records) |->
          [domain_name |-> Head(domains).domain_name,
           record |-> Head(domains).records[j]]]
       \o UpdateTargets(Tail(domains))

\* One call of update_dns_record and the boolean it returned.
UpdateCall(ip_address, target, ok) ==
  [value |-> ip_address, domain_name |-> target.domain_name,
   record_name |-> target.record.name,
   name |-> fqdn_record_name(target.domain_name, target.record.name),
   type |-> target.record.type, ttl |-> target.record.ttl, ok |-> ok]

\* The provider's records after it accepted `call`: the PATCH of line 258
\* sets the value of the record with that name and type.
Accepted(held, call) ==
  {h \in held : h.name # call.name \/ h.type # call.type}
  \cup {[name |-> call.name, type |-> call.type, value |-> call.value]}

\* ------------------------------------------------------------ main script
\* Variant: `domain_configurations is None`
NothingConfiguredNoneOnly == domain_configurations.isNone

\* `not domain_configurations`
NothingConfigured == domain_configurations.isNone \/ domain_configurations.list = << >>

\* Variant: a cycle that follows a failed one revisits only the records
\* whose update failed then.
TargetsFailedOnly ==
  LET all == UpdateTargets(domain_configurations.list)
      FailedBefore(i) == i \in 1..Len(prev.calls) /\ ~prev.calls[i].ok
      RECURSIVE Pick(_)
      Pick(i) == IF i > Len(all) THEN << >>
                 ELSE (IF Len(prev.calls) = Len(all) /\ ~FailedBefore(i)
                       THEN << >> ELSE << all[i] >>) \o Pick(i + 1)
  IN  Pick(1)

\* The records one update cycle visits: every record of every domain.
Targets == UpdateTargets(domain_configurations.list)

\* Variant: the test that the lookup returned an address is missing.
UpdateRequiredUnchecked(ip) == ip # cached_ip_from_config

\* Variant: the comparison with the cached address is missing.
UpdateRequiredAlways(ip) == ip # "none"

\* `if current_public_ip:` and `if current_public_ip != cached_ip_from_config:`
UpdateRequired(ip) == ip # "none" /\ ip # cached_ip_from_config

\* Variant: the loops are left at the first failed update.
BatchStopsOnFailure(ok) == ok /\ next_record < Len(Targets)

\* The two `for` loops have a record left to visit; the result of the call
\* just made plays no part.
BatchContinues(ok) == next_record < Len(Targets)

\* Variant: the flag takes the result of the latest call.
AggregateLastResult(flag, ok) == ok

\* all_updates_successful_for_new_ip after a call that returned `ok`
AggregateSuccess(flag, ok) == flag /\ ok

\* Lines 283-311: the initial load, the exit on a missing key, the first mtime.
Startup ==
  /\ pc = "start"
  /\ \E template \in {NoFile} \cup {FileOf(d, 1) : d \in Templates}, copyOk \in BOOLEAN :
       LET r == load_and_validate_config(template, copyOk)
       IN  /\ LoadEffects(r)
           /\ startup_load' = r.result
           /\ last_load' = r.result
           /\ cached_ip_from_config' = r.ip
           /\ domain_configurations' = r.domains
           /\ IF r.result = "crash"
              THEN pc' = "crashed" /\ UNCHANGED dns_config_last_modified_time
              ELSE IF r.key = "none"
              THEN pc' = "exited" /\ UNCHANGED dns_config_last_modified_time
              ELSE /\ pc' = "loop"
                   /\ dns_config_last_modified_time' =
                        IF r.file.exists THEN r.file.mtime ELSE 0
  /\ file_touched' = FALSE
  /\ UNCHANGED << environ_api_key, current_public_ip, next_record,
                  all_updates_successful_for_new_ip, sleep_seconds, calls, saves,
                  failed_save, provider, loaded, prev, unchanged_at_check, edits >>

\* Variant: only a later stamp counts as a change.
ConfigNewer == file.exists /\ file.mtime > dns_config_last_modified_time

\* `current_mtime is not None and current_mtime != dns_config_last_modified_time`
ConfigChanged == file.exists /\ file.mtime # dns_config_last_modified_time

\* Lines 314-343: the mtime check and, on a changed stamp, the reload.
CheckConfig ==
  /\ pc = "loop"
  /\ unchanged_at_check' = ~file_touched
  /\ file_touched' = FALSE
  /\ IF ConfigChanged
     THEN LET r == load_and_validate_config(NoFile, FALSE)
          IN  /\ LoadEffects(r)
              /\ loaded' = r.result
              /\ last_load' = r.result
              /\ failed_save' = IF failed_save.ip = "none" THEN failed_save
                                ELSE [failed_save EXCEPT !.reloaded = TRUE]
              /\ cached_ip_from_config' = r.ip
              /\ domain_configurations' = r.domains
              /\ IF r.result = "crash"
                 THEN /\ pc' = "crashed"
                      /\ UNCHANGED << dns_config_last_modified_time, sleep_seconds >>
                 ELSE /\ dns_config_last_modified_time' = file.mtime
                      /\ IF r.key = "none"
                         THEN /\ pc' = "sleep"
                              /\ sleep_seconds' = DEFAULT_CHECK_INTERVAL_SECONDS
                         ELSE IF r.domains.isNone
                         THEN /\ pc' = "sleep"
                              /\ sleep_seconds' =
                                   IF r.interval > 0 THEN r.interval
                                   ELSE DEFAULT_CHECK_INTERVAL_SECONDS
                         ELSE /\ pc' = "resolve"
                              /\ UNCHANGED sleep_seconds
     ELSE /\ pc' = "resolve"
          /\ dns_config_last_modified_time' =
               IF file.exists THEN dns_config_last_modified_time ELSE 0
          /\ UNCHANGED << file, MIJNHOST_API_KEY, CHECK_INTERVAL_SECONDS,
                          PUBLIC_IP_SERVICE_URL, parsed_config_data,
                          cached_ip_from_config, domain_configurations,
                          sleep_seconds, loaded, last_load, failed_save,
                          doc_accessed >>
  /\ UNCHANGED << environ_api_key, current_public_ip, next_record,
                  all_updates_successful_for_new_ip, calls, saves, startup_load,
                  provider, prev, edits >>

\* Lines 346-355 and 372-378: get_public_ip and every branch that needs no
\* DNS update.  `ip` is what get_public_ip returns ("none": any failure of the
\* lookup), writeOk whether a write by cache_ip_in_yaml succeeds.
GetPublicIp ==
  /\ pc = "resolve"
  /\ \E ip \in Addresses \cup {"none"}, writeOk \in BOOLEAN :
       /\ current_public_ip' = ip
       /\ IF UpdateRequired(ip) /\ NothingConfigured
          THEN /\ cache_ip_in_yaml(ip, writeOk)
               /\ cached_ip_from_config' = CachedAfterSave(ip, writeOk)
               /\ pc' = "sleep"
               /\ sleep_seconds' = CHECK_INTERVAL_SECONDS
               /\ UNCHANGED << next_record, all_updates_successful_for_new_ip >>
          ELSE IF UpdateRequired(ip)
          THEN /\ pc' = "update"
               /\ next_record' = 1
               /\ all_updates_successful_for_new_ip' = TRUE
               /\ UNCHANGED << file, parsed_config_data, file_touched, doc_accessed,
                               saves, failed_save, cached_ip_from_config,
                               sleep_seconds >>
          ELSE /\ pc' = "sleep"
               /\ sleep_seconds' = CHECK_INTERVAL_SECONDS
               /\ UNCHANGED << file, parsed_config_data, file_touched, doc_accessed,
                               saves, failed_save, cached_ip_from_config, next_record,
                               all_updates_successful_for_new_ip >>
  /\ UNCHANGED << environ_api_key, MIJNHOST_API_KEY, CHECK_INTERVAL_SECONDS,
                  PUBLIC_IP_SERVICE_URL, domain_configurations,
                  dns_config_last_modified_time, calls, loaded, startup_load,
                  last_load, provider, prev, unchanged_at_check, edits >>

\* Lines 357-371: one pass of the inner loop body, and after the last record
\* the decision to cache.  `ok` is what update_dns_record returns.
UpdateDnsRecord ==
  /\ pc = "update"
  /\ next_record \in 1..Len(Targets)
  /\ \E ok \in BOOLEAN, writeOk \in BOOLEAN :
       LET success == AggregateSuccess(all_updates_successful_for_new_ip, ok)
           call == UpdateCall(current_public_ip, Targets[next_record], ok)
           last == ~BatchContinues(ok)
       IN  /\ calls' = Append(calls, call)
           /\ provider' =
                [held |-> IF ok THEN Accepted(provider.held, call) ELSE provider.held,
                 synced |-> IF last /\ success
                            THEN (IF writeOk
                                  THEN [ip |-> current_public_ip,
                                        domains |-> domain_configurations.list]
                                  ELSE NoBatch)
                            ELSE provider.synced]
           /\ all_updates_successful_for_new_ip' = success
           /\ IF BatchContinues(ok)
              THEN /\ next_record' = next_record + 1
                   /\ UNCHANGED << pc, file, parsed_config_data, file_touched,
                                   doc_accessed, saves, failed_save,
                                   cached_ip_from_config, sleep_seconds >>
              ELSE /\ next_record' = 0
                   /\ pc' = "sleep"
                   /\ sleep_seconds' = CHECK_INTERVAL_SECONDS
                   /\ IF success
                      THEN /\ cache_ip_in_yaml(current_public_ip, writeOk)
                           /\ cached_ip_from_config' =
                                CachedAfterSave(current_public_ip, writeOk)
                      ELSE UNCHANGED << file, parsed_config_data, file_touched,
                                        doc_accessed, saves, failed_save,
                                        cached_ip_from_config >>
  /\ UNCHANGED << environ_api_key, MIJNHOST_API_KEY, CHECK_INTERVAL_SECONDS,
                  PUBLIC_IP_SERVICE_URL, domain_configurations,
                  dns_config_last_modified_time, current_public_ip, loaded,
                  startup_load, last_load, prev, unchanged_at_check, edits >>

\* time.sleep returns and the while loop starts its next iteration.
Sleep ==
  /\ pc = "sleep"
  /\ pc' = "loop"
  /\ prev' = [calls |-> calls, resolved |-> current_public_ip, loaded |-> loaded]
  /\ calls' = << >>
  /\ saves' = << >>
  /\ loaded' = "no"
  /\ current_public_ip' = "unset"
  /\ sleep_seconds' = 0
  /\ UNCHANGED << environ_api_key, file, MIJNHOST_API_KEY, CHECK_INTERVAL_SECONDS,
                  PUBLIC_IP_SERVICE_URL, parsed_config_data, cached_ip_from_config,
                  domain_configurations, dns_config_last_modified_time, next_record,
                  all_updates_successful_for_new_ip, startup_load, last_load,
                  failed_save, provider, file_touched, unchanged_at_check,
                  doc_accessed, edits >>

Running == pc \notin {"start", "exited", "crashed"}

\* The human editor saves the configuration file.
EditConfigFile ==
  /\ Running
  /\ edits < MaxEdits
  /\ \E d \in EditorDocuments : file' = FileOf(d, NewMtime)
  /\ file_touched' = TRUE
  /\ edits' = edits + 1
  /\ UNCHANGED << pc, environ_api_key, MIJNHOST_API_KEY, CHECK_INTERVAL_SECONDS,
                  PUBLIC_IP_SERVICE_URL, parsed_config_data, cached_ip_from_config,
                  domain_configurations, dns_config_last_modified_time,
                  current_public_ip, next_record, all_updates_successful_for_new_ip,
                  sleep_seconds, calls, saves, loaded, startup_load, last_load,
                  failed_save, provider, prev, unchanged_at_check, doc_accessed >>

\* The configuration file is removed (or its directory becomes inaccessible).
DeleteConfigFile ==
  /\ Running
  /\ edits < MaxEdits
  /\ file.exists
  /\ file' = NoFile
  /\ file_touched' = TRUE
  /\ edits' = edits + 1
  /\ UNCHANGED << pc, environ_api_key, MIJNHOST_API_KEY, CHECK_INTERVAL_SECONDS,
                  PUBLIC_IP_SERVICE_URL, parsed_config_data, cached_ip_from_config,
                  domain_configurations, dns_config_last_modified_time,
                  current_public_ip, next_record, all_updates_successful_for_new_ip,
                  sleep_seconds, calls, saves, loaded, startup_load, last_load,
                  failed_save, provider, prev, unchanged_at_check, doc_accessed >>

Next ==
  \/ Startup
  \/ CheckConfig
  \/ GetPublicIp
  \/ UpdateDnsRecord
  \/ Sleep
  \/ EditConfigFile
  \/ DeleteConfigFile

Spec == Init /\ [][Next]_vars

\* The script keeps running: the interpreter executes the next statement, the
\* HTTP calls return or time out, and time.sleep returns.  Startup and
\* CheckConfig are enabled exactly at pc = "start" and pc = "loop" and each of
\* their steps leaves that place, so weak fairness of them is that the script
\* does not stay there for ever.
SpecLive ==
  /\ Spec
  /\ []<>(pc # "start")
  /\ []<>(pc # "loop")
  /\ WF_vars(GetPublicIp)
  /\ WF_vars(UpdateDnsRecord)
  /\ WF_vars(Sleep)

\* ------------------------------------------------- validation over inputs
\* The same program started on each of a family of hand-written `domains`
\* sections, to exercise every branch of the validation loops.
MaxRecords == 2

RecAt == RecordItem(TRUE, AllRecordKeys, RStr(At), RStr(<< "a" >>), RInt(300))
RecWww ==
  RecordItem(TRUE, AllRecordKeys, RStr(<< " " >> \o Www),
             RStr(<< "A","A","A","A" >>), RStr(<< "6","0" >>))
RecCname ==
  RecordItem(TRUE, AllRecordKeys, RStr(Www), RStr(<< "C","N","A","M","E" >>),
             RInt(300))
RecNoTtl == RecordItem(TRUE, {"name", "type"}, RStr(Www), RStr(<< "A" >>), RNone)
RecTtlZero == RecordItem(TRUE, AllRecordKeys, RStr(Www), RStr(<< "A" >>), RInt(0))
\* name: "  "  - the apex written as blank text
RecBlank ==
  RecordItem(TRUE, AllRecordKeys, RStr(<< " ", " " >>), RStr(<< "A" >>), RInt(300))
RecNotDict == RecordItem(FALSE, {}, RNone, RNone, RNone)

RecordChoices ==
  {RecAt, RecWww, RecCname, RecNoTtl, RecTtlZero, RecBlank, RecNotDict}

RecordLists == UNION {[1..k -> RecordChoices] : k \in 0..MaxRecords}

ExampleOrg == << "e","x","a","m","p","l","e",".","o","r","g" >>

DomainChoices ==
  {DomainEntry(TRUE, AllDomainKeys, RStr(n), TRUE, rs) :
     n \in {ExampleCom, << " " >>}, rs \in RecordLists}
  \cup {DomainEntry(FALSE, {}, RNone, FALSE, << >>),
        DomainEntry(TRUE, {"domain_name"}, RStr(ExampleCom), FALSE, << >>),
        DomainEntry(TRUE, AllDomainKeys, RStr(ExampleCom), FALSE, << >>)}

\* A well-formed second domain that follows the varied one, or nothing.
DomainTails ==
  {<< >>, << DomainEntry(TRUE, AllDomainKeys, RStr(ExampleOrg), TRUE, << RecAt >>) >>}

\* Values a hand-written global_settings section may give the two settings.
IntervalChoices ==
  {RNone, RInt(-5), RInt(0), RInt(60), RStr(<< "a","b","c" >>),
   RStr(<< "1","2","0" >>), RList, RFloat(2, << "2",".","5" >>), RInf}

UrlChoices ==
  {RNone, RStr(<< "f","t","p",":","/","/","x" >>),
   RStr(<< "h","t","t","p",":","/","/","x" >>), RInt(7)}

SettingsDocuments ==
  {Document("map", TRUE, "203.0.113.1", i, u, TRUE,
            << DomainEntry(TRUE, AllDomainKeys, RStr(ExampleOrg), TRUE, << RecAt >>) >>) :
     i \in IntervalChoices, u \in UrlChoices}

ValidationDocuments ==
  {Document("map", TRUE, "203.0.113.1", RInt(60), RNone, TRUE, << d >> \o t) :
     d \in DomainChoices, t \in DomainTails}
  \cup SettingsDocuments

InitValidation ==
  /\ environ_api_key = "set"
  /\ file \in {FileOf(d, 1) : d \in ValidationDocuments}
  /\ ProcessStart

\* The first pass through the loop after start-up.
FirstCycle == prev = NoObservations

\* The validated configuration written out as a document: each validated
\* record and domain as the mapping the load built for it, and the effective
\* settings.
RECURSIVE RecordItems(_)
RecordItems(records) ==
  IF records = << >> THEN << >>
  ELSE << RecordItem(TRUE, AllRecordKeys, RStr(Head(records).name),
                     RStr(Head(records).type), RInt(Head(records).ttl)) >>
       \o RecordItems(Tail(records))

RECURSIVE DomainEntries(_)
DomainEntries(domains) ==
  IF domains = << >> THEN << >>
  ELSE << DomainEntry(TRUE, AllDomainKeys, RStr(Head(domains).domain_name), TRUE,
                      RecordItems(Head(domains).records)) >>
       \o DomainEntries(Tail(domains))

ValidatedDocument ==
  Document("map", TRUE, cached_ip_from_config, RInt(CHECK_INTERVAL_SECONDS),
           RStr(PUBLIC_IP_SERVICE_URL), TRUE,
           DomainEntries(domain_configurations.list))

\* The configuration file is replaced by the validated configuration the
\* process holds, before the first mtime check.
WriteValidated ==
  /\ pc = "loop"
  /\ FirstCycle
  /\ startup_load = "ok"
  /\ edits = 0
  /\ file' = FileOf(ValidatedDocument, NewMtime)
  /\ file_touched' = TRUE
  /\ edits' = edits + 1
  /\ UNCHANGED << pc, environ_api_key, MIJNHOST_API_KEY, CHECK_INTERVAL_SECONDS,
                  PUBLIC_IP_SERVICE_URL, parsed_config_data, cached_ip_from_config,
                  domain_configurations, dns_config_last_modified_time,
                  current_public_ip, next_record, all_updates_successful_for_new_ip,
                  sleep_seconds, calls, saves, loaded, startup_load, last_load,
                  failed_save, provider, prev, unchanged_at_check, doc_accessed >>

NextValidation ==
  \/ Startup
  \/ WriteValidated
  \/ FirstCycle /\ CheckConfig
  \/ FirstCycle /\ GetPublicIp
  \/ FirstCycle /\ UpdateDnsRecord

SpecValidation == InitValidation /\ [][NextValidation]_vars

\* ================================================================ claims
PersistedIp(f) ==
  IF f.exists /\ f.doc.kind = "map" /\ f.doc.gsIsDict THEN f.doc.last_known_ip
  ELSE "none"

AllOk(cs) == \A i \in 1..Len(cs) : cs[i].ok
SomeFailed(cs) == \E i \in 1..Len(cs) : ~cs[i].ok

\* The arguments of a sequence of update_dns_record calls, without results.
CallArgs(cs) ==
  [i \in 1..Len(cs) |->
     [value |-> cs[i].value, domain_name |-> cs[i].domain_name,
      record_name |-> cs[i].record_name, name |-> cs[i].name,
      type |-> cs[i].type, ttl |-> cs[i].ttl]]

\* The calls a full batch for address X consists of, from the validated
\* configuration.
ExpectedArgs(X) ==
  LET all == UpdateTargets(domain_configurations.list)
  IN  CallArgs([i \in 1..Len(all) |-> UpdateCall(X, all[i], TRUE)])

\* The step in which get_public_ip returns and the loop branches on it.
ResolveStep == pc = "resolve" /\ pc' # "resolve"
\* A step in which update_dns_record is called.
UpdateStep == pc = "update" /\ Len(calls') > Len(calls)

\* C1: all-or-nothing persistence.  In an update cycle (resolved address X
\* differs from the cached one, domains configured) cache_ip_in_yaml(X) is
\* called, and the cached address in memory and on disk becomes X, only in
\* the step that ends the batch and only if every record of every domain was
\* attempted and every update_dns_record returned true; with one false result
\* there is no save and memory and file keep what they had.
C1_AllOrNothing ==
  [][UpdateStep =>
       LET X == current_public_ip
           complete == /\ pc' = "sleep"
                       /\ CallArgs(calls') = ExpectedArgs(X)
       IN  /\ pc' # "update" => complete
           /\ saves' # << >> => complete /\ AllOk(calls') /\ saves' = << X >>
           /\ cached_ip_from_config' # cached_ip_from_config =>
                saves' # << >> /\ cached_ip_from_config' = X
           /\ PersistedIp(file') # PersistedIp(file) =>
                saves' # << >> /\ PersistedIp(file') = X
           /\ SomeFailed(calls') =>
                /\ saves' = << >>
                /\ cached_ip_from_config' = cached_ip_from_config
                /\ file' = file
                /\ cached_ip_from_config # X
     ]_vars

\* C1 witness: a finished batch with one success and one failure, no save.
C1_Witness ==
  /\ pc = "sleep"
  /\ Len(calls) >= 2
  /\ SomeFailed(calls)
  /\ \E i \in 1..Len(calls) : calls[i].ok
  /\ saves = << >>
  /\ cached_ip_from_config # current_public_ip

\* C2: full-batch retry.  If some update of the previous cycle failed, the
\* file was not touched between the two mtime checks and the resolver returns
\* the same address again, this cycle issues the same update_dns_record calls
\* (same domain, name, type, ttl, value, same order), those that succeeded
\* last time included.
C2_FullBatchRetry ==
  (/\ pc = "sleep"
   /\ SomeFailed(prev.calls)
   /\ unchanged_at_check
   /\ current_public_ip = prev.resolved)
  => CallArgs(calls) = CallArgs(prev.calls)

\* C2 witness: the retry cycle has ended and repeated a call that had
\* succeeded in the failed cycle.
C2_Witness ==
  /\ pc = "sleep"
  /\ unchanged_at_check
  /\ current_public_ip = prev.resolved
  /\ Len(prev.calls) >= 2
  /\ prev.calls[1].ok
  /\ ~prev.calls[2].ok
  /\ Len(calls) = Len(prev.calls)

\* C3: when the resolved address equals the cached one the iteration goes
\* straight to its sleep without any update_dns_record or cache_ip_in_yaml
\* call, whatever the domains are; so every such call is made in a step whose
\* resolved address is a real address different from the cached one.
C3_NoActionWhenEqual ==
  [][/\ (ResolveStep /\ current_public_ip' = cached_ip_from_config) =>
          /\ pc' = "sleep"
          /\ calls' = << >>
          /\ saves' = << >>
          /\ file' = file
     /\ (Len(calls') > Len(calls) \/ Len(saves') > Len(saves)) =>
          /\ current_public_ip' \in Addresses
          /\ current_public_ip' # cached_ip_from_config
    ]_vars

\* C3 witness: an iteration that reloaded a configuration with domains, found
\* the address unchanged and did nothing.
C3_Witness ==
  /\ pc = "sleep"
  /\ loaded = "ok"
  /\ current_public_ip = cached_ip_from_config
  /\ domain_configurations.list # << >>
  /\ calls = << >>
  /\ saves = << >>

C5_FatalReloadRetried ==
  (/\ prev.loaded = "fatal"
   /\ unchanged_at_check
   /\ pc \in {"resolve", "update", "sleep", "crashed"})
  => loaded # "no"

\* C6: a fatal reload advances no other state.  The step in which the reload
\* returns the fatal pair leaves the cached address, the domains, the
\* interval, the service URL and the remembered modification time as they
\* were (the sleep that follows changes none of them).
C6_FatalReloadFrame ==
  [][(pc = "loop" /\ loaded' = "fatal") =>
       UNCHANGED << cached_ip_from_config, domain_configurations,
                    CHECK_INTERVAL_SECONDS, PUBLIC_IP_SERVICE_URL,
                    dns_config_last_modified_time >>
    ]_vars

\* C7: load_and_validate_config never aborts the process: whatever the file
\* holds, it returns the fatal pair or a validated pair, and a parseable
\* document of unknown structure (a top-level list or scalar) gives an empty
\* domain list.
C7_LoadNeverAborts ==
  /\ pc # "crashed"
  /\ startup_load # "crash"
  /\ loaded # "crash"
  /\ (pc = "resolve" /\ loaded = "ok" /\ file.exists
        /\ file.doc.kind \in {"list", "scalar"} /\ ~file_touched)
     => domain_configurations = DomainList(<< >>)

\* C8: the process ends if and only if the API key is absent at the startup
\* load; it then ends before any lookup, update or access to the
\* configuration file, and once the loop is entered it never ends.
C8_ExitOnlyOnMissingKey ==
  /\ pc \in {"exited", "crashed"} =>
       /\ environ_api_key = "none"
       /\ ~doc_accessed
       /\ calls = << >>
       /\ saves = << >>
       /\ current_public_ip = "unset"
       /\ prev = NoObservations
  /\ (environ_api_key = "none" /\ pc # "start") => pc = "exited"

\* C9: with no domains configured a new address X is cached at once:
\* cache_ip_in_yaml(X) is called, the cached address in memory becomes X and
\* no update_dns_record call is made in that iteration.
C9_CacheWithoutDomains ==
  [][(/\ ResolveStep
      /\ current_public_ip' \in Addresses
      /\ current_public_ip' # cached_ip_from_config
      /\ (domain_configurations.isNone \/ domain_configurations.list = << >>))
     => /\ saves' = << current_public_ip' >>
        /\ cached_ip_from_config' = current_public_ip'
        /\ parsed_config_data'.last_known_ip = current_public_ip'
        /\ calls' = << >>
        /\ pc' = "sleep"
    ]_vars

\* C9 witness: a validated, empty domain list and a new address, cached with
\* no update call.
C9_Witness ==
  /\ pc = "sleep"
  /\ ~domain_configurations.isNone
  /\ domain_configurations.list = << >>
  /\ current_public_ip \in Addresses
  /\ saves = << current_public_ip >>
  /\ cached_ip_from_config = current_public_ip
  /\ calls = << >>

\* C10: with the API key set, no configuration file and no template (or a
\* failed copy of it, which leaves no file either) the startup load is not
\* fatal: it returns no cached address and an empty domain list, the in-memory
\* document is the empty structure, and the script enters its loop.
C10_NoFileNoTemplate ==
  [][(/\ pc = "start"
      /\ pc' # "start"
      /\ environ_api_key = "set"
      /\ ~file.exists
      /\ ~file'.exists)
     => /\ pc' = "loop"
        /\ startup_load' = "ok"
        /\ cached_ip_from_config' = "none"
        /\ domain_configurations' = DomainList(<< >>)
        /\ parsed_config_data' = EmptyStructure
        /\ dns_config_last_modified_time' = 0
    ]_vars

\* C10 witness: the loop runs, in its second iteration, on the empty
\* configuration it started with, there being still no file.
C10_Witness ==
  /\ pc = "resolve"
  /\ startup_load = "ok"
  /\ edits = 0
  /\ ~file.exists
  /\ parsed_config_data = EmptyStructure
  /\ prev.resolved = "none"
  /\ domain_configurations = DomainList(<< >>)

\* ------------------------------------------------ validation as a filter
\* The filter the documentation describes: a record is valid when it has the
\* keys name, type and ttl, its type is A or AAAA after upper-casing and its
\* ttl parses as a positive integer; a domain is kept when its trimmed name is
\* not empty and it has a valid record.
ReferenceRecordValid(item) ==
  /\ item.isDict
  /\ {"name", "type", "ttl"} \subseteq item.keys
  /\ record_type(item) \in { << "A" >>, << "A","A","A","A" >> }
  /\ IntOfStr(record_ttl_str(item)).ok
  /\ IntOfStr(record_ttl_str(item)).n > 0

RECURSIVE ReferenceRecords(_)
ReferenceRecords(records) ==
  IF records = << >> THEN << >>
  ELSE (IF ReferenceRecordValid(Head(records))
        THEN << ValidRecord(Head(records)) >> ELSE << >>)
       \o ReferenceRecords(Tail(records))

ReferenceDomainKept(entry) ==
  /\ entry.isDict
  /\ {"domain_name", "records"} \subseteq entry.keys
  /\ entry.recordsIsList
  /\ current_domain_name(entry) # << >>
  /\ ReferenceRecords(entry.records) # << >>

RECURSIVE ReferenceFilter(_)
ReferenceFilter(entries) ==
  IF entries = << >> THEN << >>
  ELSE (IF ReferenceDomainKept(Head(entries))
        THEN << [domain_name |-> current_domain_name(Head(entries)),
                 records |-> ReferenceRecords(Head(entries).records)] >>
        ELSE << >>)
       \o ReferenceFilter(Tail(entries))

\* C11: after a successful load the validated domain list is exactly the
\* documented filter of the document's `domains` section: the domains with a
\* non-empty trimmed name and a valid record, each with exactly its valid
\* records.
C11_ValidationIsReferenceFilter ==
  (startup_load = "ok" /\ ~domain_configurations.isNone)
    => domain_configurations.list = ReferenceFilter(parsed_config_data.domains)

\* The raw record entries of a kept domain that name the apex by blank text.
BlankApexRecords(entry) ==
  {j \in 1..Len(entry.records) :
     /\ ReferenceRecordValid(entry.records[j])
     /\ record_name(entry.records[j]) = << >>}

\* C12: a record whose name is empty after trimming, with a valid type and
\* ttl, is kept by validation as a record of its domain, and a completed
\* update batch contains a call for it whose target is the domain itself.
C12_BlankNameIsApex ==
  startup_load = "ok" =>
    \A i \in 1..Len(parsed_config_data.domains) :
      LET entry == parsed_config_data.domains[i]
      IN  (ReferenceDomainKept(entry) /\ BlankApexRecords(entry) # {}) =>
            /\ \E k \in 1..Len(domain_configurations.list) :
                 LET d == domain_configurations.list[k]
                 IN  /\ d.domain_name = current_domain_name(entry)
                     /\ \E r \in 1..Len(d.records) : d.records[r].name = << >>
            /\ (pc = "sleep" /\ calls # << >>) =>
                 \E c \in 1..Len(calls) :
                   /\ calls[c].record_name = << >>
                   /\ calls[c].name = current_domain_name(entry) \o << "." >>

\* -------------------------------------------------- settings fall back
HasScheme(u) ==
  \/ StartsWith(u, << "h","t","t","p",":","/","/" >>)
  \/ StartsWith(u, << "h","t","t","p","s",":","/","/" >>)

\* The documented effective settings: a positive integer interval is taken,
\* anything else gives the default; a URL with a scheme is taken, anything
\* else gives the default.
IntegerValued(raw) == raw.t = "int" \/ (raw.t = "str" /\ IntOfStr(raw.s).ok)

ReferenceInterval(raw) ==
  IF IntegerValued(raw) /\ PyInt(raw).n > 0
  THEN PyInt(raw).n
  ELSE DEFAULT_CHECK_INTERVAL_SECONDS

ReferenceUrl(raw) ==
  IF raw.t = "str" /\ HasScheme(raw.s) THEN raw.s ELSE DEFAULT_PUBLIC_IP_SERVICE_URL

\* C13: the effective interval is always a positive integer and the effective
\* URL always has an http(s) scheme; a missing, non-integer or non-positive
\* interval gives 300 and a URL without the scheme gives the default, and the
\* load of such a document succeeds.
C13_SettingsFallBack ==
  /\ CHECK_INTERVAL_SECONDS > 0
  /\ HasScheme(PUBLIC_IP_SERVICE_URL)
  /\ startup_load # "no" =>
       /\ startup_load = "ok"
       /\ CHECK_INTERVAL_SECONDS = ReferenceInterval(parsed_config_data.check_interval_seconds)
       /\ PUBLIC_IP_SERVICE_URL = ReferenceUrl(parsed_config_data.public_ip_service_url)

\* ---------------------------------------------------------- idempotence
\* C14: validation is idempotent: when the file holds the validated domains
\* and the effective settings the process already has, loading it succeeds and
\* gives the same domain list, interval and URL.
C14_ValidationIdempotent ==
  [][(/\ pc = "loop"
      /\ pc' # "loop"
      /\ file.exists
      /\ file.mtime # dns_config_last_modified_time
      /\ file.doc = ValidatedDocument)
     => /\ loaded' = "ok"
        /\ domain_configurations' = domain_configurations
        /\ CHECK_INTERVAL_SECONDS' = CHECK_INTERVAL_SECONDS
        /\ PUBLIC_IP_SERVICE_URL' = PUBLIC_IP_SERVICE_URL
    ]_vars

\* C14 witness: the validated output of a two-record domain was loaded again.
C14_Witness ==
  /\ pc = "resolve"
  /\ loaded = "ok"
  /\ edits = 1
  /\ file.exists
  /\ file.doc = ValidatedDocument
  /\ Len(domain_configurations.list) = 1
  /\ Len(domain_configurations.list[1].records) = 2

\* ------------------------------------------------------------ failed save
\* The step that ends a fully successful batch with a cache_ip_in_yaml whose
\* write fails.
FailedBatchSave ==
  /\ pc = "update"
  /\ Len(saves') > Len(saves)
  /\ failed_save'.ip # "none"

\* The lookup step that returns the address of the latest, failed, save.
ResolvesUnsaved ==
  /\ pc = "resolve"
  /\ failed_save.ip # "none"
  /\ current_public_ip' = failed_save.ip

C16_NoShortCircuit ==
  /\ [][(/\ ResolveStep
          /\ current_public_ip' # "none"
          /\ current_public_ip' # cached_ip_from_config
          /\ ~NothingConfigured)
         => /\ pc' = "update"
            /\ next_record' = 1
            /\ calls' = << >>
            /\ all_updates_successful_for_new_ip'
        ]_vars
  /\ [](pc = "update" =>
          /\ next_record \in 1..Len(ExpectedArgs(current_public_ip))
          /\ CallArgs(calls) =
               SubSeq(ExpectedArgs(current_public_ip), 1, next_record - 1)
          /\ all_updates_successful_for_new_ip = AllOk(calls))
  /\ []((pc = "sleep" /\ calls # << >>) =>
          /\ CallArgs(calls) = ExpectedArgs(current_public_ip)
          /\ all_updates_successful_for_new_ip = AllOk(calls))

\* C16 witness: a finished batch over two domains whose first call failed
\* and whose later calls succeeded.
C16_Witness ==
  /\ pc = "sleep"
  /\ Len(domain_configurations.list) = 2
  /\ Len(calls) = 3
  /\ ~calls[1].ok
  /\ calls[2].ok
  /\ calls[3].ok
  /\ calls[3].domain_name = ExampleOrg
  /\ ~all_updates_successful_for_new_ip

\* ------------------------------------------------------ change detection
\* C17: in the step that opens an iteration the configuration is loaded if
\* and only if the file's mtime can be read and differs from the remembered
\* one (0 after the file was missing), and that happens before the
\* iteration's address lookup; with the file missing nothing is loaded and
\* the iteration goes on to the lookup with the configuration in memory.  No
\* other step of the iteration loads.
C17_ChangeDetection ==
  [][/\ (pc = "loop" /\ pc' # "loop") =>
          /\ loaded = "no"
          /\ loaded' # "no" <=>
               (file.exists /\ file.mtime # dns_config_last_modified_time)
          /\ current_public_ip = "unset"
          /\ current_public_ip' = "unset"
          /\ ~file.exists =>
               /\ pc' = "resolve"
               /\ dns_config_last_modified_time' = 0
               /\ UNCHANGED << parsed_config_data, cached_ip_from_config,
                               domain_configurations, CHECK_INTERVAL_SECONDS,
                               PUBLIC_IP_SERVICE_URL, MIJNHOST_API_KEY >>
     /\ pc \in {"resolve", "update"} =>
          (loaded' = loaded /\ last_load' = last_load)
    ]_vars

\* C17 witness: the file was removed under the running loop; the iteration
\* loaded nothing and is at the lookup with the domains it had.
C17_Witness ==
  /\ pc = "resolve"
  /\ ~file.exists
  /\ loaded = "no"
  /\ dns_config_last_modified_time = 0
  /\ ~domain_configurations.isNone
  /\ domain_configurations.list # << >>

\* ------------------------------------------------------------ convergence
\* The configuration can be loaded: the key is set and the file is a mapping.
Loadable ==
  /\ environ_api_key = "set"
  /\ file.exists
  /\ file.doc.kind = "map"
  /\ ~IntOverflows(file.doc.check_interval_seconds)

\* A cache_ip_in_yaml of the current iteration failed to write.
SaveFailedThisCycle == saves # << >> /\ failed_save.ip # "none"

\* The iteration has ended and none of its update calls failed.
GoodCycle == pc = "sleep" /\ AllOk(calls)

Converged(X) ==
  /\ cached_ip_from_config = X
  /\ PersistedIp(file) = X
  /\ calls = << >>
  /\ saves = << >>

SaveStep == Len(saves') > Len(saves)
LoadStep == (pc = "start" /\ pc' # "start") \/ (pc = "loop" /\ loaded' # "no")

\* The domains sequence of a document, empty when the document has none.
DomainsOf(doc) == IF doc.domainsIsList THEN doc.domains ELSE << >>

\* C19: cache_ip_in_yaml(X) changes in the in-memory document only the three
\* global_settings entries: last_known_ip becomes X, check_interval_seconds
\* and public_ip_service_url the effective values.  The domains sequence and
\* the other top-level key stay as the latest load read them from the file
\* (domains empty when the document has no such sequence), what is written to
\* the file is that document, and nothing else changes the document between a
\* load and a save.
C19_SaveFrame ==
  [][/\ SaveStep =>
          LET before == IF Truthy(parsed_config_data) THEN parsed_config_data
                        ELSE EmptyStructure
          IN  /\ parsed_config_data' =
                   [before EXCEPT !.gsIsDict = TRUE,
                                  !.last_known_ip = current_public_ip',
                                  !.check_interval_seconds = RInt(CHECK_INTERVAL_SECONDS),
                                  !.public_ip_service_url = RStr(PUBLIC_IP_SERVICE_URL),
                                  !.domainsIsList = TRUE,
                                  !.domains = DomainsOf(before)]
              /\ file' # file => file' = FileOf(parsed_config_data', file'.mtime)
     /\ (LoadStep /\ last_load' = "ok") =>
          LET read == IF file'.exists /\ Truthy(file'.doc) THEN file'.doc
                      ELSE EmptyStructure
          IN  /\ parsed_config_data'.domains = DomainsOf(read)
              /\ parsed_config_data'.extra = read.extra
     /\ (~SaveStep /\ ~LoadStep) => parsed_config_data' = parsed_config_data
    ]_vars

\* C19 witness: the address was saved into the hand-written configuration,
\* whose domains and own key are in the file as they were.
C19_Witness ==
  /\ pc = "sleep"
  /\ saves = << current_public_ip >>
  /\ failed_save.ip = "none"
  /\ file.exists
  /\ file.doc.last_known_ip = current_public_ip
  /\ file.doc.last_known_ip # ConfigA.last_known_ip
  /\ file.doc.extra = "notes"
  /\ file.doc.domains = ConfigA.domains


\* ------------------------------------------- unparseable file left alone
\* C20: while the most recent load, at startup with the API key present or on
\* a reload, is one that returned (None, None), the loop calls neither
\* update_dns_record nor cache_ip_in_yaml.
C20_NoWriteAfterFatalLoad ==
  (environ_api_key = "set" /\ last_load = "fatal") =>
    /\ pc # "update"
    /\ calls = << >>
    /\ saves = << >>


\* ---------------------------------------------------------- provider state
\* The iteration has ended without an update because the resolved address is
\* the cached one.
NoUpdateNeeded ==
  /\ pc = "sleep"
  /\ current_public_ip # "none"
  /\ current_public_ip = cached_ip_from_config
  /\ calls = << >>
  /\ saves = << >>

\* The cached address was written after a batch for the present, non-empty,
\* domains in which every call was accepted.
CachedFromFullBatch ==
  /\ ~NothingConfigured
  /\ provider.synced.ip = cached_ip_from_config
  /\ provider.synced.domains = domain_configurations.list

\* C21: when an iteration ends without an update because the resolved address
\* equals the cached address Y, and Y was saved after a fully successful
\* batch for the present domains, every configured record holds Y at the
\* provider.
C21_ProviderAgreesWithCache ==
  (NoUpdateNeeded /\ CachedFromFullBatch) =>
    \A i \in 1..Len(Targets) :
      LET c == UpdateCall(cached_ip_from_config, Targets[i], TRUE)
      IN  [name |-> c.name, type |-> c.type, value |-> cached_ip_from_config]
            \in provider.held


\* ---------------------------------------------------------- external edits
\* C22: with the configuration in memory coming from a successful load, a
\* cache_ip_in_yaml that writes the file after someone else has written it
\* since this iteration's mtime check writes a document derived
\* from what the file holds at that moment: the domains sequence and the other
\* top-level key of the file's present content are in what is written.
C22_NoLostExternalEdit ==
  [][(/\ SaveStep
      /\ file' # file
      /\ file.exists
      /\ file_touched
      /\ last_load = "ok")
     => LET current == IF Truthy(file.doc) THEN file.doc ELSE EmptyStructure
        IN  /\ file.doc.kind \in {"map", "empty"}
            /\ file'.doc.domains = DomainsOf(current)
            /\ file'.doc.extra = current.extra
    ]_vars

====
